---- MODULE Spec2Model ----
(***************************************************************************)
(* A model of the call-fsm state machine engine (src/src/lib.rs): the      *)
(* StateMachine container, its registration and lookup operations, the     *)
(* run() tick and the error-recovery dispatch.                              *)
(*                                                                         *)
(* Option<T> values are tuples: <<>> is None and <<x>> is Some(x).         *)
(* Result<T, FsmError> values are records [ok, val, err].                  *)
(* User hooks are opaque functions of the data: a hook is named by its     *)
(* kind, "ok" (always succeeds / guard always true), "fail" (always fails  *)
(* / guard always false) or "any" (either, depending on the data).         *)
(***************************************************************************)
EXTENDS Integers, Sequences, FiniteSets, TLC

\* ------------------------------------------------------------------ bounds
\* Largest capacity handed to StateMachine::new.
MaxStates == 2
\* Largest number of populated cells of the transition matrix.
MaxTrans == 2
\* The run() calls of a scenario are counted up to MaxTicks.
MaxTicks == 60

\* ------------------------------------------------------------------ values
None == <<>>
Some(x) == <<x>>
IsSome(o) == o # <<>>
Unwrap(o) == o[1]

Ok(v) == [ok |-> TRUE, val |-> <<v>>, err |-> "None"]
Err(e) == [ok |-> FALSE, val |-> <<>>, err |-> e]
Unit == "()"

Names == {"a", "b"}
DataVals == {0, 1}
\* The error kinds a failing hook returns (two of the six FsmError kinds).
HookErrs == {"StateIsEmpty", "TransitionIsEmpty"}

HookKinds == {"ok", "fail", "any"}

\* Result<(), FsmError> values a state hook or completion hook can return.
HookResults(kind) ==
    IF kind = "ok" THEN {"Ok"}
    ELSE IF kind = "fail" THEN HookErrs
    ELSE {"Ok"} \cup HookErrs

\* Values a guard hook can return.
CheckResults(kind) ==
    IF kind = "ok" THEN {TRUE}
    ELSE IF kind = "fail" THEN {FALSE}
    ELSE {TRUE, FALSE}

State(name, init, exec) == [name |-> name, init |-> init, exec |-> exec]

Transition(name, src, dst, check, done) ==
    [name |-> name, src |-> src, dst |-> dst, check |-> check, done |-> done]

DestIndex(i) == [kind |-> "Index", index |-> i, name |-> ""]
DestName(n) == [kind |-> "Name", index |-> 0, name |-> n]

\* Option<Destination> values a recovery hook can return.
Destinations ==
    {None} \cup {Some(DestIndex(i)) : i \in 0..MaxStates}
           \cup {Some(DestName(n)) : n \in Names}

\* ------------------------------------------------------------------- state
VARIABLES
    max_states,                 \* the capacity given to new()
    data,
    states,
    num_states,
    transitions,
    active_state,
    active_state_initialized,
    error,
    panicked,                   \* a panic (expect / index out of range) unwound the caller
    last,                       \* the last call: its name, result and hook calls in order
    registered,                 \* history: the states of the successful add_state calls, in order
    stored,                     \* history: per (src, dst), the transition of the last successful add_transition
    ticks                       \* history: the run() calls of a scenario, counted up to MaxTicks

machine == <<max_states, data, states, num_states, transitions, active_state,
             active_state_initialized, error>>
vars == <<max_states, data, states, num_states, transitions, active_state,
          active_state_initialized, error, panicked, last, registered, stored, ticks>>

Slots == 0..(max_states - 1)

\* The capacity of the machine of tests/simple.rs.
CycleStates == 3

\* Every index a call is made with.
AllIndices == (0..MaxStates) \cup (0..CycleStates)

Call(op, res, trace) == [op |-> op, res |-> res, trace |-> trace]

\* One hook call of a tick: which hook, on which state (src = dst) or matrix
\* cell (src, dst), what it got or returned (res) and, for the second
\* recovery hook, the destination it returned (ret).
Event(hook, src, dst, res, ret) ==
    [hook |-> hook, src |-> src, dst |-> dst, res |-> res, ret |-> ret]

\* StateMachine::new
New(d, cap) ==
    /\ max_states = cap
    /\ data = d
    /\ states = [i \in 0..(cap - 1) |-> None]
    /\ num_states = 0
    /\ transitions = [i \in 0..(cap - 1) |-> [j \in 0..(cap - 1) |-> None]]
    /\ active_state = None
    /\ active_state_initialized = FALSE
    /\ error = None

Init ==
    /\ \E d \in DataVals, cap \in 0..MaxStates : New(d, cap)
    /\ panicked = FALSE
    /\ last = Call("new", Ok(Unit), <<>>)
    /\ registered = <<>>
    /\ stored = [c \in AllIndices \X AllIndices |-> None]
    /\ ticks = 0

\* ----------------------------------------------------------------- lookups
\* StateMachine::state
state(index) ==
    IF index >= num_states THEN Err("StateIndexOutOfBounds")
    ELSE IF IsSome(states[index]) THEN Ok(Unwrap(states[index]))
    ELSE Err("StateIsEmpty")

\* StateMachine::mut_state
mut_state(index) ==
    IF index >= num_states THEN Err("StateIndexOutOfBounds")
    ELSE IF IsSome(states[index]) THEN Ok(Unwrap(states[index]))
    ELSE Err("StateIsEmpty")

\* state_by_name() returning the last matching slot instead of the first.
state_by_name_last(name) ==
    LET hits == {i \in Slots : IsSome(states[i]) /\ Unwrap(states[i]).name = name}
    IN  IF hits = {} THEN None
        ELSE Some(CHOOSE i \in hits : \A j \in hits : i >= j)

\* StateMachine::state_by_name: the first occupied slot, in index order,
\* whose state has the name.
state_by_name(name) ==
    LET hits == {i \in Slots : IsSome(states[i]) /\ Unwrap(states[i]).name = name}
    IN  IF hits = {} THEN None
        ELSE Some(CHOOSE i \in hits : \A j \in hits : i <= j)

\* transition() reading the cell of the opposite direction.
transition_transposed(src, dst) ==
    IF src >= num_states \/ dst >= num_states THEN Err("TransitionIndexOutOfBounds")
    ELSE IF IsSome(transitions[dst][src]) THEN Ok(Unwrap(transitions[dst][src]))
    ELSE Err("TransitionIsEmpty")

\* StateMachine::transition
transition(src, dst) ==
    IF src >= num_states \/ dst >= num_states THEN Err("TransitionIndexOutOfBounds")
    ELSE IF IsSome(transitions[src][dst]) THEN Ok(Unwrap(transitions[src][dst]))
    ELSE Err("TransitionIsEmpty")

\* StateMachine::active_transitions
active_transitions(src) ==
    IF src >= num_states THEN Err("TransitionIndexOutOfBounds")
    ELSE Ok(transitions[src])

\* Vec::capacity of the slot array built by vec![None; max_states]: the
\* allocation is made for exactly max_states elements.
states_capacity == max_states

\* ------------------------------------------------------------ registration
\* add_state() returning the count after the increment instead of the index.
add_state_count(s) ==
    /\ ~panicked
    /\ IF num_states >= states_capacity
       THEN /\ last' = Call("add_state", Err("MaxNumberOfStatesExceeded"), <<>>)
            /\ UNCHANGED <<machine, panicked>>
       ELSE /\ states' = [states EXCEPT ![num_states] = Some(s)]
            /\ num_states' = num_states + 1
            /\ last' = Call("add_state", Ok(num_states + 1), <<>>)
            /\ UNCHANGED <<max_states, data, transitions, active_state,
                           active_state_initialized, error, panicked>>

\* add_state() counting the state without storing it.
add_state_unstored(s) ==
    /\ ~panicked
    /\ IF num_states >= states_capacity
       THEN /\ last' = Call("add_state", Err("MaxNumberOfStatesExceeded"), <<>>)
            /\ UNCHANGED <<machine, panicked>>
       ELSE /\ num_states' = num_states + 1
            /\ last' = Call("add_state", Ok(num_states), <<>>)
            /\ UNCHANGED <<max_states, data, states, transitions, active_state,
                           active_state_initialized, error, panicked>>

\* StateMachine::add_state
add_state(s) ==
    /\ ~panicked
    /\ IF num_states >= states_capacity
       THEN /\ last' = Call("add_state", Err("MaxNumberOfStatesExceeded"), <<>>)
            /\ UNCHANGED <<machine, panicked>>
       ELSE /\ states' = [states EXCEPT ![num_states] = Some(s)]
            /\ num_states' = num_states + 1
            /\ last' = Call("add_state", Ok(num_states), <<>>)
            /\ UNCHANGED <<max_states, data, transitions, active_state,
                           active_state_initialized, error, panicked>>

\* add_transition() testing src = dst before the bounds.
add_transition_equal_first(t, src, dst) ==
    /\ ~panicked
    /\ IF src = dst
       THEN /\ last' = Call("add_transition", Err("AddTransitionSrcDstStatesEqual"), <<>>)
            /\ UNCHANGED <<machine, panicked>>
       ELSE IF src >= num_states \/ dst >= num_states
       THEN /\ last' = Call("add_transition", Err("TransitionIndexOutOfBounds"), <<>>)
            /\ UNCHANGED <<machine, panicked>>
       ELSE /\ transitions' = [transitions EXCEPT ![src][dst] = Some(t)]
            /\ last' = Call("add_transition", Ok(Unit), <<>>)
            /\ UNCHANGED <<max_states, data, states, num_states, active_state,
                           active_state_initialized, error, panicked>>

\* add_transition() without the src = dst test.
add_transition_self_loop(t, src, dst) ==
    /\ ~panicked
    /\ IF src >= num_states \/ dst >= num_states
       THEN /\ last' = Call("add_transition", Err("TransitionIndexOutOfBounds"), <<>>)
            /\ UNCHANGED <<machine, panicked>>
       ELSE /\ transitions' = [transitions EXCEPT ![src][dst] = Some(t)]
            /\ last' = Call("add_transition", Ok(Unit), <<>>)
            /\ UNCHANGED <<max_states, data, states, num_states, active_state,
                           active_state_initialized, error, panicked>>

\* StateMachine::add_transition
add_transition(t, src, dst) ==
    /\ ~panicked
    /\ IF src >= num_states \/ dst >= num_states
       THEN /\ last' = Call("add_transition", Err("TransitionIndexOutOfBounds"), <<>>)
            /\ UNCHANGED <<machine, panicked>>
       ELSE IF src = dst
       THEN /\ last' = Call("add_transition", Err("AddTransitionSrcDstStatesEqual"), <<>>)
            /\ UNCHANGED <<machine, panicked>>
       ELSE /\ transitions' = [transitions EXCEPT ![src][dst] = Some(t)]
            /\ last' = Call("add_transition", Ok(Unit), <<>>)
            /\ UNCHANGED <<max_states, data, states, num_states, active_state,
                           active_state_initialized, error, panicked>>

\* StateMachine::set_active_state
set_active_state(s) ==
    /\ ~panicked
    /\ IF state(s).ok
       THEN /\ active_state' = Some(s)
            /\ last' = Call("set_active_state", Ok(Unit), <<>>)
            /\ UNCHANGED <<max_states, data, states, num_states, transitions,
                           active_state_initialized, error, panicked>>
       ELSE /\ last' = Call("set_active_state", Err(state(s).err), <<>>)
            /\ UNCHANGED <<machine, panicked>>

\* StateMachine::set_error_callbacks
set_error_callbacks(init, exec) ==
    /\ ~panicked
    /\ error' = Some(<<init, exec>>)
    /\ last' = Call("set_error_callbacks", Ok(Unit), <<>>)
    /\ UNCHANGED <<max_states, data, states, num_states, transitions, active_state,
                   active_state_initialized, panicked>>

\* -------------------------------------------------------------- error path
\* The hook calls StateMachine::do_error_callback makes for the error e when
\* the first recovery hook returns ret1 and the second returns ret: none
\* without an installed pair.
ErrorEvents(at, e, ret1, ret) ==
    IF error = None THEN <<>>
    ELSE <<Event("error_init", at, at, e, ret1), Event("error_exec", at, at, e, ret)>>

\* A recovery hook is named by the set of Option<Destination> values it can
\* return. The values the first installed hook can return; without an
\* installed pair nothing is called and nothing is returned.
ErrorInitReturns ==
    IF error = None THEN {None} ELSE Unwrap(error)[1]

\* The values the second installed hook can return.
ErrorReturns ==
    IF error = None THEN {None} ELSE Unwrap(error)[2]

\* The slot a destination returned by the second recovery hook resolves to.
ResolveDestination(ret) ==
    IF ret = None THEN None
    ELSE IF Unwrap(ret).kind = "Index"
         THEN (IF Unwrap(ret).index < num_states THEN Some(Unwrap(ret).index) ELSE None)
         ELSE state_by_name(Unwrap(ret).name)

\* do_error_callback clearing the flag even when the destination does not
\* resolve.
do_error_callback_resets(initialized, ret1, ret) ==
    IF error = None THEN <<active_state, initialized>>
    ELSE IF IsSome(ResolveDestination(ret))
         THEN <<ResolveDestination(ret), FALSE>>
         ELSE <<active_state, FALSE>>

\* do_error_callback falling back on the first hook's destination when the
\* second hook's does not resolve.
do_error_callback_first(initialized, ret1, ret) ==
    IF error = None THEN <<active_state, initialized>>
    ELSE IF IsSome(ResolveDestination(ret))
         THEN <<ResolveDestination(ret), FALSE>>
         ELSE IF IsSome(ResolveDestination(ret1))
              THEN <<ResolveDestination(ret1), FALSE>>
              ELSE <<active_state, initialized>>

\* do_error_callback leaving the flag alone when the destination resolves
\* to the slot that is already active.
do_error_callback_skips_same(initialized, ret1, ret) ==
    IF error = None THEN <<active_state, initialized>>
    ELSE IF IsSome(ResolveDestination(ret)) /\ ResolveDestination(ret) # active_state
         THEN <<ResolveDestination(ret), FALSE>>
         ELSE <<active_state, initialized>>

\* StateMachine::do_error_callback: <<active_state, active_state_initialized>>
\* after the dispatch, entered with the flag at `initialized`. The value ret1
\* the first hook returns is dropped; ret is what the second hook returns.
do_error_callback(initialized, ret1, ret) ==
    IF error = None THEN <<active_state, initialized>>
    ELSE IF IsSome(ResolveDestination(ret))
         THEN <<ResolveDestination(ret), FALSE>>
         ELSE <<active_state, initialized>>

\* --------------------------------------------------------------------- run
FmtBool(b) == IF b THEN "true" ELSE "false"

\* The guard scan of run() (the for loop over the active state's row) from
\* column j on, where g[j] is what the guard of cell [src][j] returns and dr
\* what the completion hook of the first passing transition returns.
\* check: the loop's `check` flag; next: next_state_index; done: the
\* completion hook's result when one ran; trace: the hook calls made.
\* The guard scan walking the row from the highest column down.
RECURSIVE ScanFrom_descending(_, _, _, _, _)
ScanFrom_descending(src, j, g, dr, acc) ==
    IF j >= max_states THEN acc
    ELSE LET c == max_states - 1 - j IN
         IF transitions[src][c] = None THEN ScanFrom_descending(src, j + 1, g, dr, acc)
         ELSE LET t == Unwrap(transitions[src][c])
                  ev == Event("check", src, c, FmtBool(g[c]), None)
              IN  IF g[c]
                  THEN [check |-> TRUE, next |-> t.dst, done |-> Some(dr),
                        trace |-> acc.trace \o <<ev, Event("done", src, c, dr, None)>>]
                  ELSE ScanFrom_descending(src, j + 1, g, dr,
                                [acc EXCEPT !.check = FALSE, !.trace = Append(@, ev)])

RECURSIVE ScanFrom(_, _, _, _, _)
ScanFrom(src, j, g, dr, acc) ==
    IF j >= max_states THEN acc
    ELSE IF transitions[src][j] = None THEN ScanFrom(src, j + 1, g, dr, acc)
    ELSE LET t == Unwrap(transitions[src][j])
             ev == Event("check", src, j, FmtBool(g[j]), None)
         IN  IF g[j]
             THEN [check |-> TRUE, next |-> t.dst, done |-> Some(dr),
                   trace |-> acc.trace \o <<ev, Event("done", src, j, dr, None)>>]
             ELSE ScanFrom(src, j + 1, g, dr,
                           [acc EXCEPT !.check = FALSE, !.trace = Append(@, ev)])

Scan(src, g, dr) ==
    ScanFrom(src, 0, g, dr, [check |-> FALSE, next |-> src, done |-> None, trace |-> <<>>])

\* The guard results the hooks of row src can produce, one per column; a
\* guard the scan does not reach (after the first that passes) returns nothing.
GuardResults(src) ==
    { g \in [Slots -> BOOLEAN] :
        /\ \A j \in Slots :
             IF transitions[src][j] = None THEN g[j] = FALSE
             ELSE g[j] \in CheckResults(Unwrap(transitions[src][j]).check)
        /\ \A j, k \in Slots : (g[j] /\ j < k) => ~g[k] }

\* The column of the guard that passed.
Passed(g) == CHOOSE j \in Slots : g[j]

\* The results the completion hook of the passing transition can produce.
DoneResults(src, g) == HookResults(Unwrap(transitions[src][Passed(g)]).done)

\* The init call of a tick: made only when the state is not initialized.
InitEvents(a, r) ==
    IF active_state_initialized THEN <<>> ELSE <<Event("init", a, a, r, None)>>

\* run() setting the initialized flag even with no active state.
RunIdle_marks ==
    /\ active_state = None
    /\ active_state_initialized' = TRUE
    /\ last' = Call("run", Ok(Unit), <<>>)
    /\ UNCHANGED <<max_states, data, states, num_states, transitions, active_state,
                   error, panicked>>

\* run() with no active state: nothing happens.
RunIdle ==
    /\ active_state = None
    /\ last' = Call("run", Ok(Unit), <<>>)
    /\ UNCHANGED <<machine, panicked>>

\* run() whose active state cannot be acquired: expect() panics.
RunPanic ==
    /\ active_state # None
    /\ ~state(Unwrap(active_state)).ok
    /\ panicked' = TRUE
    /\ last' = Call("run", Err("panic: Failed to acquire active state"), <<>>)
    /\ UNCHANGED machine

\* run() marking the state initialized before its init hook has succeeded.
RunInitFail_marked ==
    /\ active_state # None
    /\ state(Unwrap(active_state)).ok
    /\ ~active_state_initialized
    /\ LET a == Unwrap(active_state)
           st == Unwrap(state(a).val)
       IN  \E e \in HookResults(st.init) \ {"Ok"}, ret1 \in ErrorInitReturns,
              ret \in ErrorReturns, d \in DataVals :
             /\ active_state' = do_error_callback(TRUE, ret1, ret)[1]
             /\ active_state_initialized' = do_error_callback(TRUE, ret1, ret)[2]
             /\ data' = d
             /\ last' = Call("run", Ok(Unit), InitEvents(a, e) \o ErrorEvents(a, e, ret1, ret))
    /\ UNCHANGED <<max_states, states, num_states, transitions, error, panicked>>

\* run() whose init hook fails.
RunInitFail ==
    /\ active_state # None
    /\ state(Unwrap(active_state)).ok
    /\ ~active_state_initialized
    /\ LET a == Unwrap(active_state)
           st == Unwrap(state(a).val)
       IN  \E e \in HookResults(st.init) \ {"Ok"}, ret1 \in ErrorInitReturns,
              ret \in ErrorReturns, d \in DataVals :
             /\ active_state' = do_error_callback(active_state_initialized, ret1, ret)[1]
             /\ active_state_initialized' =
                   do_error_callback(active_state_initialized, ret1, ret)[2]
             /\ data' = d
             /\ last' = Call("run", Ok(Unit), InitEvents(a, e) \o ErrorEvents(a, e, ret1, ret))
    /\ UNCHANGED <<max_states, states, num_states, transitions, error, panicked>>

\* run() marking the state initialized only after exec succeeded.
RunExecFail_unmarked ==
    /\ active_state # None
    /\ state(Unwrap(active_state)).ok
    /\ LET a == Unwrap(active_state)
           st == Unwrap(state(a).val)
       IN  /\ active_state_initialized \/ "Ok" \in HookResults(st.init)
           /\ \E e \in HookResults(st.exec) \ {"Ok"}, ret1 \in ErrorInitReturns,
                 ret \in ErrorReturns, d \in DataVals :
                /\ active_state' = do_error_callback(active_state_initialized, ret1, ret)[1]
                /\ active_state_initialized' =
                      do_error_callback(active_state_initialized, ret1, ret)[2]
                /\ data' = d
                /\ last' = Call("run", Ok(Unit),
                                InitEvents(a, "Ok") \o <<Event("exec", a, a, e, None)>>
                                    \o ErrorEvents(a, e, ret1, ret))
    /\ UNCHANGED <<max_states, states, num_states, transitions, error, panicked>>

\* run() whose exec hook fails, after init succeeded or was not needed.
RunExecFail ==
    /\ active_state # None
    /\ state(Unwrap(active_state)).ok
    /\ LET a == Unwrap(active_state)
           st == Unwrap(state(a).val)
       IN  /\ active_state_initialized \/ "Ok" \in HookResults(st.init)
           /\ \E e \in HookResults(st.exec) \ {"Ok"}, ret1 \in ErrorInitReturns,
                 ret \in ErrorReturns, d \in DataVals :
                /\ active_state' = do_error_callback(TRUE, ret1, ret)[1]
                /\ active_state_initialized' = do_error_callback(TRUE, ret1, ret)[2]
                /\ data' = d
                /\ last' = Call("run", Ok(Unit),
                                InitEvents(a, "Ok") \o <<Event("exec", a, a, e, None)>>
                                    \o ErrorEvents(a, e, ret1, ret))
    /\ UNCHANGED <<max_states, states, num_states, transitions, error, panicked>>

\* The hook calls of a tick whose init (when needed) and exec succeed.
ExecEvents(a) == InitEvents(a, "Ok") \o <<Event("exec", a, a, "Ok", None)>>

\* run() reaches the guard scan: init (when needed) and exec succeed.
ReachesScan ==
    /\ active_state # None
    /\ state(Unwrap(active_state)).ok
    /\ active_state_initialized
          \/ "Ok" \in HookResults(Unwrap(state(Unwrap(active_state)).val).init)
    /\ "Ok" \in HookResults(Unwrap(state(Unwrap(active_state)).val).exec)
    /\ active_transitions(Unwrap(active_state)).ok

\* run() in which no guard passes: the state stays active.
RunStay ==
    /\ ReachesScan
    /\ LET a == Unwrap(active_state) IN
       \E g \in GuardResults(a), d \in DataVals :
          LET sc == Scan(a, g, "Ok") IN
          /\ ~sc.check
          /\ active_state_initialized' = TRUE
          /\ data' = d
          /\ last' = Call("run", Ok(Unit), ExecEvents(a) \o sc.trace)
    /\ UNCHANGED <<max_states, states, num_states, transitions, active_state, error,
                   panicked>>

\* run() falling through to the move after a failed completion hook.
RunDoneFail_moves ==
    /\ ReachesScan
    /\ LET a == Unwrap(active_state) IN
       \E g \in GuardResults(a) : (\E j \in Slots : g[j]) /\
       \E e \in DoneResults(a, g) \ {"Ok"}, ret1 \in ErrorInitReturns,
          ret \in ErrorReturns, d \in DataVals :
          LET sc == Scan(a, g, e) IN
          /\ active_state' = Some(sc.next)
          /\ active_state_initialized' = FALSE
          /\ data' = d
          /\ last' = Call("run", Ok(Unit),
                          ExecEvents(a) \o sc.trace \o ErrorEvents(a, e, ret1, ret))
    /\ UNCHANGED <<max_states, states, num_states, transitions, error, panicked>>

\* run() in which a guard passes and the completion hook fails.
RunDoneFail ==
    /\ ReachesScan
    /\ LET a == Unwrap(active_state) IN
       \E g \in GuardResults(a) : (\E j \in Slots : g[j]) /\
       \E e \in DoneResults(a, g) \ {"Ok"}, ret1 \in ErrorInitReturns,
          ret \in ErrorReturns, d \in DataVals :
          LET sc == Scan(a, g, e) IN
          /\ active_state' = do_error_callback(TRUE, ret1, ret)[1]
          /\ active_state_initialized' = do_error_callback(TRUE, ret1, ret)[2]
          /\ data' = d
          /\ last' = Call("run", Ok(Unit),
                          ExecEvents(a) \o sc.trace \o ErrorEvents(a, e, ret1, ret))
    /\ UNCHANGED <<max_states, states, num_states, transitions, error, panicked>>

\* run() taking a transition without resetting the initialized flag.
RunTaken_keeps_flag ==
    /\ ReachesScan
    /\ LET a == Unwrap(active_state) IN
       \E g \in GuardResults(a) : (\E j \in Slots : g[j]) /\
       \E d \in DataVals :
          LET sc == Scan(a, g, "Ok") IN
          /\ "Ok" \in DoneResults(a, g)
          /\ sc.check
          /\ active_state' = Some(sc.next)
          /\ active_state_initialized' = TRUE
          /\ data' = d
          /\ last' = Call("run", Ok(Unit), ExecEvents(a) \o sc.trace)
    /\ UNCHANGED <<max_states, states, num_states, transitions, error, panicked>>

\* run() taking a transition and initializing the new state in the same
\* tick.
RunTaken_eager_init ==
    /\ ReachesScan
    /\ LET a == Unwrap(active_state) IN
       \E g \in GuardResults(a) : (\E j \in Slots : g[j]) /\
       \E d \in DataVals :
          LET sc == Scan(a, g, "Ok") IN
          /\ "Ok" \in DoneResults(a, g)
          /\ sc.check
          /\ active_state' = Some(sc.next)
          /\ active_state_initialized' = TRUE
          /\ data' = d
          /\ last' = Call("run", Ok(Unit),
                          ExecEvents(a) \o sc.trace
                             \o <<Event("init", sc.next, sc.next, "Ok", None)>>)
    /\ UNCHANGED <<max_states, states, num_states, transitions, error, panicked>>

\* run() in which a guard passes and the completion hook succeeds: the
\* transition is taken.
RunTaken ==
    /\ ReachesScan
    /\ LET a == Unwrap(active_state) IN
       \E g \in GuardResults(a) : (\E j \in Slots : g[j]) /\
       \E d \in DataVals :
          LET sc == Scan(a, g, "Ok") IN
          /\ "Ok" \in DoneResults(a, g)
          /\ sc.check
          /\ active_state' = Some(sc.next)
          /\ active_state_initialized' = FALSE
          /\ data' = d
          /\ last' = Call("run", Ok(Unit), ExecEvents(a) \o sc.trace)
    /\ UNCHANGED <<max_states, states, num_states, transitions, error, panicked>>

\* StateMachine::run
run ==
    /\ ~panicked
    /\ \/ RunIdle
       \/ RunPanic
       \/ RunInitFail
       \/ RunExecFail
       \/ RunStay
       \/ RunDoneFail
       \/ RunTaken

\* ------------------------------------------------------------ specification
\* The inputs of the calls: states and transitions with hooks of any
\* behaviour, transitions whose own dst field is any index (in range or
\* not), and indices up to one past the largest capacity. The src field of
\* a Transition is never read by the machine and is left at 0.
Indices == 0..MaxStates
StateInputs == {State(n, "any", "any") : n \in Names}
TransitionInputs == {Transition("t", 0, d, "any", "any") : d \in Indices}

\* The recovery hooks installed: the first returns a destination naming
\* slot 0, the second returns any destination or none.
ErrorInitInputs == {Some(DestIndex(0))}

Populated == {c \in Slots \X Slots : transitions[c[1]][c[2]] # None}

\* The model stores into at most MaxTrans cells of the matrix.
WithinMaxTrans(src, dst) == Cardinality(Populated \cup {<<src, dst>>}) <= MaxTrans

\* The histories follow the results the calls return.
RecordState(s) ==
    /\ registered' = IF last'.res.ok THEN Append(registered, s) ELSE registered
    /\ UNCHANGED stored

RecordTransition(t, src, dst) ==
    /\ stored' = IF last'.res.ok THEN [stored EXCEPT ![<<src, dst>>] = Some(t)] ELSE stored
    /\ UNCHANGED registered

Next ==
    \/ \E s \in StateInputs : add_state(s) /\ RecordState(s) /\ UNCHANGED ticks
    \/ \E t \in TransitionInputs, src \in Indices, dst \in Indices :
         WithinMaxTrans(src, dst) /\ add_transition(t, src, dst)
            /\ RecordTransition(t, src, dst) /\ UNCHANGED ticks
    \/ \E s \in Indices : set_active_state(s) /\ UNCHANGED <<registered, stored, ticks>>
    \/ error = None /\ set_error_callbacks(ErrorInitInputs, Destinations)
          /\ UNCHANGED <<registered, stored, ticks>>
    \/ run /\ UNCHANGED <<registered, stored, ticks>>

Spec == Init /\ [][Next]_vars

\* ----------------------------------------------- scenario: 3-state cycle
\* tests/simple.rs: init_sm() builds a machine of capacity 3 with states
\* state1..state3, transitions state1->state2->state3->state1 whose hooks
\* all succeed and whose guards are always true, and recovery hooks; then
\* simple_test() activates state 0 and calls run() in a loop.
CycleNames == <<"state1", "state2", "state3">>
CycleEdges == <<(<<0, 1>>), (<<1, 2>>), (<<2, 0>>)>>

\* new_state!: a state named after its identifier with the generic hooks.
CycleState(k) == State(CycleNames[k + 1], "ok", "ok")

\* new_transition!: Transition::new(name, src, dst, ..) stored at [src][dst].
CycleTransition(src, dst) ==
    Transition(CycleNames[src + 1] \o "__" \o CycleNames[dst + 1], src, dst, "ok", "ok")

\* error_init returns None and error_exec returns the name "state2".
CycleErrorInit == {None}
CycleErrorExec == {Some(DestName("state2"))}

Tick == ticks' = IF ticks < MaxTicks THEN ticks + 1 ELSE ticks

InitCycle ==
    /\ \E d \in DataVals : New(d, CycleStates)
    /\ panicked = FALSE
    /\ last = Call("new", Ok(Unit), <<>>)
    /\ registered = <<>>
    /\ stored = [c \in AllIndices \X AllIndices |-> None]
    /\ ticks = 0

\* The calls of init_sm() and simple_test(), in program order.
NextCycle ==
    \/ /\ num_states < CycleStates
       /\ add_state(CycleState(num_states)) /\ RecordState(CycleState(num_states))
       /\ UNCHANGED ticks
    \/ /\ num_states = CycleStates
       /\ Cardinality(Populated) < Len(CycleEdges)
       /\ LET c == CycleEdges[Cardinality(Populated) + 1] IN
             /\ add_transition(CycleTransition(c[1], c[2]), c[1], c[2])
             /\ RecordTransition(CycleTransition(c[1], c[2]), c[1], c[2])
       /\ UNCHANGED ticks
    \/ /\ Cardinality(Populated) = Len(CycleEdges)
       /\ error = None
       /\ set_error_callbacks(CycleErrorInit, CycleErrorExec)
       /\ UNCHANGED <<registered, stored, ticks>>
    \/ /\ error # None
       /\ active_state = None
       /\ set_active_state(0)
       /\ UNCHANGED <<registered, stored, ticks>>
    \/ /\ active_state # None
       /\ run /\ Tick
       /\ UNCHANGED <<registered, stored>>

\* simple_test() runs to its loop and the loop never ends.
SpecCycle == InitCycle /\ [][NextCycle]_vars /\ WF_vars(NextCycle)

\* ----------------------------------- scenario: exec failure, no recovery
\* States whose init hook succeeds and whose exec hook always fails, any
\* well-formed transitions between them, no recovery hooks; the machine is
\* activated once and then run() is called repeatedly.
FailingStateInputs == {State("a", "ok", "fail")}
WellFormedTransition(src, dst) == Transition("t", src, dst, "any", "any")

NextExecFail ==
    \/ \E s \in FailingStateInputs : add_state(s) /\ RecordState(s) /\ UNCHANGED ticks
    \/ \E src \in Indices, dst \in Indices :
         /\ WithinMaxTrans(src, dst)
         /\ add_transition(WellFormedTransition(src, dst), src, dst)
         /\ RecordTransition(WellFormedTransition(src, dst), src, dst)
         /\ UNCHANGED ticks
    \/ /\ active_state = None
       /\ \E s \in Indices : set_active_state(s)
       /\ UNCHANGED <<registered, stored, ticks>>
    \/ /\ active_state # None
       /\ run /\ Tick
       /\ UNCHANGED <<registered, stored>>

SpecExecFail == Init /\ [][NextExecFail]_vars

\* ------------------------------------- scenario: rows of several transitions
\* A machine of the capacity of tests/simple.rs, so that a row of the matrix
\* holds more than one transition: states with hooks of any behaviour,
\* transitions stored at the cell their own fields name, recovery hooks, and
\* the calls in any order.
RowSlots == 0..(CycleStates - 1)
RowStateInputs == {State("a", "any", "any")}

NextRow ==
    \/ \E s \in RowStateInputs : add_state(s) /\ RecordState(s) /\ UNCHANGED ticks
    \/ \E src \in RowSlots, dst \in RowSlots :
         /\ WithinMaxTrans(src, dst)
         /\ add_transition(WellFormedTransition(src, dst), src, dst)
         /\ RecordTransition(WellFormedTransition(src, dst), src, dst)
         /\ UNCHANGED ticks
    \/ \E s \in RowSlots : set_active_state(s) /\ UNCHANGED <<registered, stored, ticks>>
    \/ error = None /\ set_error_callbacks(ErrorInitInputs, Destinations)
          /\ UNCHANGED <<registered, stored, ticks>>
    \/ run /\ UNCHANGED <<registered, stored, ticks>>

SpecRow == InitCycle /\ [][NextRow]_vars

\* ------------------------------------------------------------------ claims
ActiveIndex == Unwrap(active_state)

\* C1: whenever the active slot is set it is an index below num_states whose
\* slot is occupied, and run() never panics acquiring the active state.
C1_ActiveStateOccupied ==
    /\ ~panicked
    /\ active_state # None =>
          /\ ActiveIndex < num_states
          /\ IsSome(states[ActiveIndex])

\* C2: every step that changes the active slot to a different index leaves
\* the initialized flag false (the flag is true only when the init hook of
\* the active state has run since the slot became active).
C2_FlagResetOnChange ==
    [][(active_state' # active_state) => ~active_state_initialized']_vars

\* C3: set_active_state(i) fails, leaving the active slot and the flag as
\* they were, when i >= num_states and succeeds otherwise; the run() that
\* follows a successful set_active_state(i) calls the init hook of state i
\* first, before its exec hook.
C3_SetActiveThenInit ==
    [][ /\ \A i \in Indices :
              set_active_state(i) =>
                 IF i >= num_states
                 THEN /\ ~last'.res.ok
                      /\ UNCHANGED <<active_state, active_state_initialized>>
                 ELSE /\ last'.res = Ok(Unit)
                      /\ active_state' = Some(i)
        /\ (last.op = "set_active_state" /\ last.res.ok /\ last'.op = "run") =>
              /\ Len(last'.trace) >= 1
              /\ last'.trace[1].hook = "init"
              /\ last'.trace[1].src = ActiveIndex ]_vars

\* C4: add_state succeeds exactly while fewer than max_states calls have
\* succeeded, returning 0, 1, ... in order; afterwards (and always for
\* capacity 0) it fails with MaxNumberOfStatesExceeded and changes nothing.
C4_AddStateCapacity ==
    [][ last'.op = "add_state" =>
          IF Len(registered) < max_states
          THEN /\ last'.res = Ok(Len(registered))
               /\ states'[Len(registered)] # None
          ELSE /\ last'.res = Err("MaxNumberOfStatesExceeded")
               /\ UNCHANGED <<states, num_states, transitions, active_state,
                              active_state_initialized>> ]_vars

\* The call after the last slot was filled has failed.
C4_Witness ==
    /\ last.op = "add_state"
    /\ ~last.res.ok
    /\ max_states = MaxStates
    /\ Len(registered) = max_states

\* C5: add_transition(t, src, dst) fails with TransitionIndexOutOfBounds when
\* an index is >= num_states (checked first), with
\* AddTransitionSrcDstStatesEqual when src = dst, and otherwise stores t at
\* [src][dst], replacing any entry, so that transition(src, dst) returns t; a
\* failed call leaves the matrix unchanged and no call changes another cell.
C5_AddTransition ==
    [][ \A t \in TransitionInputs, src \in Indices, dst \in Indices :
          add_transition(t, src, dst) =>
             IF src >= num_states \/ dst >= num_states
             THEN /\ last'.res = Err("TransitionIndexOutOfBounds")
                  /\ transitions' = transitions
             ELSE IF src = dst
             THEN /\ last'.res = Err("AddTransitionSrcDstStatesEqual")
                  /\ transitions' = transitions
             ELSE /\ last'.res = Ok(Unit)
                  /\ transition(src, dst)' = Ok(t)
                  /\ \A i \in Slots, j \in Slots :
                        <<i, j>> # <<src, dst>> => transitions'[i][j] = transitions[i][j]
      ]_vars

\* A transition was stored while another cell was populated.
C5_Witness ==
    /\ last.op = "add_transition"
    /\ last.res.ok
    /\ Cardinality(Populated) = 2

\* C6: num_states never exceeds the capacity; the occupied slots are exactly
\* 0..num_states-1 and hold the states in registration order; the matrix is
\* capacity x capacity; every populated cell [s][d] has s, d < num_states and
\* s # d.
C6_Structure ==
    /\ num_states <= max_states
    /\ DOMAIN states = Slots
    /\ \A i \in Slots : IsSome(states[i]) <=> i < num_states
    /\ Len(registered) = num_states
    /\ \A i \in Slots : i < num_states => states[i] = Some(registered[i + 1])
    /\ DOMAIN transitions = Slots
    /\ \A i \in Slots : DOMAIN transitions[i] = Slots
    /\ \A c \in Populated : c[1] < num_states /\ c[2] < num_states /\ c[1] # c[2]

\* A full machine with MaxTrans populated cells.
C6_Witness ==
    /\ max_states = MaxStates
    /\ num_states = max_states
    /\ Cardinality(Populated) = MaxTrans

\* C7: state(i) fails with StateIndexOutOfBounds when i >= num_states and
\* otherwise returns the state registered at i; transition(i, j) fails with
\* TransitionIndexOutOfBounds when i or j >= num_states, with
\* TransitionIsEmpty when no add_transition(_, i, j) has succeeded, and
\* otherwise returns the transition last stored at [i][j].
C7_Lookups ==
    /\ \A i \in Indices :
          state(i) = IF i >= Len(registered) THEN Err("StateIndexOutOfBounds")
                     ELSE Ok(registered[i + 1])
    /\ \A i \in Indices, j \in Indices :
          transition(i, j) =
             IF i >= Len(registered) \/ j >= Len(registered)
             THEN Err("TransitionIndexOutOfBounds")
             ELSE IF stored[<<i, j>>] = None THEN Err("TransitionIsEmpty")
             ELSE Ok(Unwrap(stored[<<i, j>>]))

\* A machine with a stored transition, an empty in-range cell and an index
\* out of bounds.
C7_Witness ==
    /\ state(num_states).err = "StateIndexOutOfBounds"
    /\ \E i \in Indices : state(i).ok
    /\ \E i \in Indices, j \in Indices : transition(i, j).ok
    /\ \E i \in Indices, j \in Indices : transition(i, j).err = "TransitionIsEmpty"

\* A tick of the cycle from state a: init, exec, guard, completion hook.
CycleTrace(a, b) ==
    <<Event("init", a, a, "Ok", None), Event("exec", a, a, "Ok", None),
      Event("check", a, b, "true", None), Event("done", a, b, "Ok", None)>>

\* C8: in the 3-state cycle of tests/simple.rs every tick calls init, exec,
\* the guard and the completion hook of the active state in that order, once
\* each, and moves to the next state of the cycle with the flag reset; after
\* n ticks the active state is n mod 3; every state is active infinitely often.
C8_Cycle ==
    /\ [][ last'.op = "run" =>
             /\ last'.trace = CycleTrace(ActiveIndex, (ActiveIndex + 1) % CycleStates)
             /\ active_state' = Some((ActiveIndex + 1) % CycleStates)
             /\ ~active_state_initialized' ]_vars
    /\ []((active_state # None /\ ticks < MaxTicks) => ActiveIndex = ticks % CycleStates)
    /\ \A i \in 0..(CycleStates - 1) : []<>(active_state = Some(i))

\* The cycle has wrapped around once and state 1 is active again.
C8_Witness ==
    /\ last.op = "run"
    /\ ticks = 4
    /\ active_state = Some(1)

\* C9: with no recovery hooks and an exec hook that always fails (init
\* succeeding), the first run() after set_active_state calls init then exec
\* and every later run() calls exec alone: no guard or completion hook is
\* called, the active slot never changes and the flag is true after the
\* first tick.
C9_ExecFailRetry ==
    [][ last'.op = "run" =>
          /\ \E e \in HookErrs :
                last'.trace =
                   (IF ticks = 0 THEN <<Event("init", ActiveIndex, ActiveIndex, "Ok", None)>>
                    ELSE <<>>) \o <<Event("exec", ActiveIndex, ActiveIndex, e, None)>>
          /\ active_state' = active_state
          /\ active_state_initialized' ]_vars

\* The exec hook has failed on three ticks in a state with an outgoing transition.
C9_Witness ==
    /\ last.op = "run"
    /\ ticks = 3
    /\ active_state # None
    /\ \E c \in Populated : c[1] = ActiveIndex

\* The position of the second recovery hook's call in a tick's hook calls (0: none).
ErrorExecAt(trace) ==
    IF \E k \in 1..Len(trace) : trace[k].hook = "error_exec"
    THEN CHOOSE k \in 1..Len(trace) : trace[k].hook = "error_exec"
    ELSE 0

\* The slot a returned destination names among the registered states: the
\* index itself when below the count, or the lowest index with the name.
TargetOf(ret) ==
    IF ret = None THEN None
    ELSE IF Unwrap(ret).kind = "Index"
    THEN (IF Unwrap(ret).index < Len(registered) THEN Some(Unwrap(ret).index) ELSE None)
    ELSE LET hits == {i \in 1..Len(registered) : registered[i].name = Unwrap(ret).name}
         IN  IF hits = {} THEN None
             ELSE Some((CHOOSE i \in hits : \A j \in hits : i <= j) - 1)

\* The tick redirected the machine: its second recovery hook returned a
\* destination that resolves.
Redirected(call) ==
    /\ call.op = "run"
    /\ ErrorExecAt(call.trace) > 0
    /\ TargetOf(call.trace[ErrorExecAt(call.trace)].ret) # None

RedirectTarget(call) == Unwrap(TargetOf(call.trace[ErrorExecAt(call.trace)].ret))

StateHooks == {"init", "exec"}

\* C10 as stated: after a resolved redirect the active slot is the target and
\* the flag is false, no hook of the target has run in the failing tick, and
\* the next run() calls the target's init then its exec and no guard of the
\* previously active state.
C10_RedirectAsStated ==
    [][ /\ Redirected(last') =>
              /\ active_state' = Some(RedirectTarget(last'))
              /\ ~active_state_initialized'
              /\ \A k \in 1..Len(last'.trace) :
                    last'.trace[k].hook \in StateHooks
                       => last'.trace[k].src # RedirectTarget(last')
        /\ (Redirected(last) /\ last'.op = "run") =>
              /\ Len(last'.trace) >= 2
              /\ last'.trace[1].hook = "init" /\ last'.trace[1].src = RedirectTarget(last)
              /\ last'.trace[2].hook = "exec" /\ last'.trace[2].src = RedirectTarget(last)
              /\ \A k \in 1..Len(last'.trace) :
                    last'.trace[k].hook = "check"
                       => last'.trace[k].src # last.trace[1].src ]_vars

\* C10 amended: after a resolved redirect the active slot is the target and
\* the flag is false; the second recovery hook's call is the last hook call
\* of the failing tick, and no init or exec hook of the target has run in it
\* unless the target is the state that was active; the next run() calls the
\* target's init first, then, if init succeeded, its exec, and evaluates no
\* guard of the previously active state unless that state is the target.
C10_Redirect ==
    [][ /\ Redirected(last') =>
              /\ active_state' = Some(RedirectTarget(last'))
              /\ ~active_state_initialized'
              /\ ErrorExecAt(last'.trace) = Len(last'.trace)
              /\ \A k \in 1..Len(last'.trace) :
                    (last'.trace[k].hook \in StateHooks
                        /\ last'.trace[k].src = RedirectTarget(last'))
                       => RedirectTarget(last') = ActiveIndex
        /\ (Redirected(last) /\ last'.op = "run") =>
              /\ Len(last'.trace) >= 1
              /\ last'.trace[1].hook = "init" /\ last'.trace[1].src = RedirectTarget(last)
              /\ last'.trace[1].res = "Ok" =>
                    /\ Len(last'.trace) >= 2
                    /\ last'.trace[2].hook = "exec"
                    /\ last'.trace[2].src = RedirectTarget(last)
              /\ \A k \in 1..Len(last'.trace) :
                    (last'.trace[k].hook = "check"
                        /\ last'.trace[k].src = last.trace[1].src)
                       => RedirectTarget(last) = last.trace[1].src ]_vars

\* A redirect by a name two registered states share went to the lower slot,
\* away from the state that was active.
C10_Witness ==
    /\ Redirected(last)
    /\ last.trace[ErrorExecAt(last.trace)].ret = Some(DestName("a"))
    /\ Len(registered) = 2
    /\ registered[1].name = "a" /\ registered[2].name = "a"
    /\ last.trace[1].src = 1
    /\ active_state = Some(0)

TickHooks == {"init", "exec", "done"}

\* The position of the failing init, exec or completion hook in a tick's
\* hook calls (0: none failed).
FailedAt(trace) ==
    IF \E k \in 1..Len(trace) : trace[k].hook \in TickHooks /\ trace[k].res # "Ok"
    THEN CHOOSE k \in 1..Len(trace) : trace[k].hook \in TickHooks /\ trace[k].res # "Ok"
    ELSE 0

Failed(call) == call.op = "run" /\ FailedAt(call.trace) > 0

FailedHook(call) == call.trace[FailedAt(call.trace)].hook

\* The tick's second recovery hook ran and returned nothing, or a
\* destination that does not resolve.
Unresolved(call) ==
    /\ call.op = "run"
    /\ ErrorExecAt(call.trace) > 0
    /\ TargetOf(call.trace[ErrorExecAt(call.trace)].ret) = None

\* C11: when the second recovery hook returns a name no registered state
\* carries, an index at or above the count, or nothing, the tick leaves the
\* active slot and the flag as a failure with no recovery hooks installed
\* leaves them: the slot unchanged, the flag false after a failed init and
\* true after a failed exec or completion hook.
C11_UnresolvedRedirect ==
    [][ (Failed(last') /\ (Unresolved(last') \/ ErrorExecAt(last'.trace) = 0)) =>
            /\ active_state' = active_state
            /\ active_state_initialized' = (FailedHook(last') # "init") ]_vars

\* An exec failure whose second recovery hook named "b" while two states
\* named "a" were registered: slot 1 stays active and initialized.
C11_Witness ==
    /\ Unresolved(last)
    /\ FailedHook(last) = "exec"
    /\ last.trace[ErrorExecAt(last.trace)].ret = Some(DestName("b"))
    /\ Len(registered) = 2
    /\ active_state = Some(1)
    /\ active_state_initialized

\* The tick took a transition: its last hook call is a completion hook that
\* succeeded.
Taken(call) ==
    /\ call.op = "run"
    /\ Len(call.trace) > 0
    /\ call.trace[Len(call.trace)].hook = "done"
    /\ call.trace[Len(call.trace)].res = "Ok"

\* The column of the matrix cell a tick's completion hook belongs to.
TakenColumn(call) == call.trace[Len(call.trace)].dst

\* C12: when run() takes the transition stored at cell [src][dst], the
\* active slot after the tick is the column dst the transition was
\* registered under, whatever the Transition's own fields, and the flag is
\* false.
C12_TakenColumn ==
    [][ Taken(last') =>
            /\ active_state' = Some(TakenColumn(last'))
            /\ ~active_state_initialized' ]_vars

\* The positions of the calls of hook h in a tick's hook calls.
CallsOf(trace, h) == {k \in 1..Len(trace) : trace[k].hook = h}

\* The tick reached the guard scan: its exec hook succeeded.
Scanned(call) ==
    /\ call.op = "run"
    /\ \E k \in CallsOf(call.trace, "exec") : call.trace[k].res = "Ok"

\* The occupied columns of row src, by the successful add_transition calls.
OccupiedColumns(src) == {j \in AllIndices : stored[<<src, j>>] # None}

\* The columns whose guard a tick evaluated, and those whose guard passed.
Evaluated(trace) == {trace[k].dst : k \in CallsOf(trace, "check")}
PassedColumns(trace) ==
    {trace[k].dst : k \in {i \in CallsOf(trace, "check") : trace[i].res = "true"}}

\* C13: after a successful exec, run() evaluates guards of the active
\* state's occupied cells only, in ascending column order, up to and
\* including the first that returns true; the guards below it were
\* evaluated and returned false, the guards above it are not evaluated, and
\* exactly one completion hook runs, that of the passing cell, right after
\* its guard. When no guard returns true every occupied cell's guard was
\* evaluated, no completion hook runs, the active slot is unchanged and
\* the flag stays true.
C13_FirstMatch ==
    [][ Scanned(last') =>
          LET tr == last'.trace
              a == ActiveIndex
              checks == CallsOf(tr, "check")
              dones == CallsOf(tr, "done")
          IN  /\ \A k \in checks :
                    /\ tr[k].src = a
                    /\ tr[k].dst \in OccupiedColumns(a)
                    /\ \E e \in CallsOf(tr, "exec") : e < k
              /\ \A k, l \in checks : k < l => tr[k].dst < tr[l].dst
              /\ Cardinality(PassedColumns(tr)) <= 1
              /\ \A h \in PassedColumns(tr) :
                    /\ Evaluated(tr) = {j \in OccupiedColumns(a) : j <= h}
                    /\ Cardinality(dones) = 1
                    /\ \A k \in dones :
                          /\ tr[k].src = a /\ tr[k].dst = h
                          /\ k > 1 /\ tr[k - 1].hook = "check" /\ tr[k - 1].dst = h
              /\ PassedColumns(tr) = {} =>
                    /\ Evaluated(tr) = OccupiedColumns(a)
                    /\ dones = {}
                    /\ active_state' = active_state
                    /\ active_state_initialized' ]_vars

\* Row 0 holds cells at columns 1 and 2; the guard of column 1 returned
\* false, that of column 2 true, and the transition to 2 was taken.
C13_Witness ==
    /\ Taken(last)
    /\ OccupiedColumns(0) = {1, 2}
    /\ Evaluated(last.trace) = {1, 2}
    /\ PassedColumns(last.trace) = {2}
    /\ last.trace[1].src = 0
    /\ active_state = Some(2)

\* The tick's init hook failed.
InitFailed(call) == Failed(call) /\ FailedHook(call) = "init"

\* C14: a tick whose init hook fails started with the flag false, calls
\* the recovery pair when one is installed, calls no exec, guard or
\* completion hook, and ends with the flag false; unless a redirect
\* resolved the active slot is unchanged, and the next run() calls the same
\* state's init first. No tick calls exec unless the flag was true when it
\* started or its init hook has just succeeded, so repeated run() calls on
\* a state whose init always fails never call its exec.
C14_InitFailure ==
    [][ /\ InitFailed(last') =>
              /\ ~active_state_initialized
              /\ ~active_state_initialized'
              /\ FailedAt(last'.trace) = 1
              /\ last'.trace[1].src = ActiveIndex
              /\ \A k \in 1..Len(last'.trace) :
                    last'.trace[k].hook \notin {"exec", "check", "done"}
              /\ (error # None) = (ErrorExecAt(last'.trace) > 0)
              /\ ~Redirected(last') => active_state' = active_state
        /\ (InitFailed(last) /\ ~Redirected(last) /\ last'.op = "run") =>
              /\ Len(last'.trace) >= 1
              /\ last'.trace[1].hook = "init"
              /\ last'.trace[1].src = last.trace[1].src
        /\ last'.op = "run" =>
              \A k \in CallsOf(last'.trace, "exec") :
                 \/ active_state_initialized /\ k = 1
                 \/ /\ k = 2
                    /\ last'.trace[1].hook = "init"
                    /\ last'.trace[1].res = "Ok"
                    /\ last'.trace[1].src = last'.trace[2].src ]_vars

\* With no recovery pair installed the init hook of state 1 failed: state 1
\* is still active and not initialized.
C14_Witness ==
    /\ InitFailed(last)
    /\ error = None
    /\ Len(last.trace) = 1
    /\ active_state = Some(1)
    /\ ~active_state_initialized

\* The tick's completion hook failed.
DoneFailed(call) == Failed(call) /\ FailedHook(call) = "done"

RecoveryHooks == {"error_init", "error_exec"}

\* The lowest occupied column of row src.
FirstColumn(src) == CHOOSE j \in OccupiedColumns(src) : \A k \in OccupiedColumns(src) : j <= k

\* C15: a tick whose completion hook fails calls the recovery pair when one
\* is installed and nothing else after the failing hook: no guard of a
\* higher column is evaluated. Unless a redirect resolved, the active slot
\* stays the source state and the flag stays true, and the next run()
\* calls that state's exec first, without init, and after a successful exec
\* evaluates the row's guards again from its lowest occupied column.
C15_DoneFailure ==
    [][ /\ DoneFailed(last') =>
              LET tr == last'.trace
                  f == FailedAt(tr)
              IN  /\ tr[f].src = ActiveIndex
                  /\ f > 1 /\ tr[f - 1].hook = "check" /\ tr[f - 1].res = "true"
                  /\ tr[f - 1].dst = tr[f].dst
                  /\ Evaluated(tr) = {j \in OccupiedColumns(ActiveIndex) : j <= tr[f].dst}
                  /\ \A k \in (f + 1)..Len(tr) : tr[k].hook \in RecoveryHooks
                  /\ (error # None) = (ErrorExecAt(tr) > 0)
                  /\ ~Redirected(last') =>
                        /\ active_state' = active_state
                        /\ active_state_initialized'
        /\ (DoneFailed(last) /\ ~Redirected(last) /\ last'.op = "run") =>
              LET a == last.trace[1].src IN
              /\ Len(last'.trace) >= 1
              /\ last'.trace[1].hook = "exec" /\ last'.trace[1].src = a
              /\ last'.trace[1].res = "Ok" =>
                    /\ Len(last'.trace) >= 2
                    /\ last'.trace[2].hook = "check"
                    /\ last'.trace[2].src = a
                    /\ last'.trace[2].dst = FirstColumn(a) ]_vars

\* Row 0 holds cells at columns 1 and 2; the guard of column 1 passed, its
\* completion hook failed and the second recovery hook returned nothing:
\* the guard of column 2 was not evaluated and state 0 is still active and
\* initialized.
C15_Witness ==
    /\ DoneFailed(last)
    /\ Unresolved(last)
    /\ OccupiedColumns(0) = {1, 2}
    /\ Evaluated(last.trace) = {1}
    /\ last.trace[1].src = 0
    /\ active_state = Some(0)
    /\ active_state_initialized

\* C16: when a hook fails with a recovery pair installed, the tick's hook
\* calls end with exactly one call of the first recovery hook followed by
\* exactly one call of the second, both given the failing hook's error; the
\* outcome depends on the second hook's return alone: the resolved target
\* with the flag false, or else the slot unchanged and the flag as the
\* failing step left it, whatever the first hook returned. With no pair
\* installed no recovery hook is called and the slot and flag are as the
\* failing step left them. A tick without a failure calls no recovery hook.
C16_Dispatch ==
    [][ /\ (Failed(last') /\ error # None) =>
              LET tr == last'.trace
                  f == FailedAt(tr)
              IN  /\ Len(tr) = f + 2
                  /\ tr[f + 1].hook = "error_init" /\ tr[f + 1].res = tr[f].res
                  /\ tr[f + 2].hook = "error_exec" /\ tr[f + 2].res = tr[f].res
                  /\ Cardinality(CallsOf(tr, "error_init")) = 1
                  /\ Cardinality(CallsOf(tr, "error_exec")) = 1
                  /\ IF TargetOf(tr[f + 2].ret) # None
                     THEN /\ active_state' = TargetOf(tr[f + 2].ret)
                          /\ ~active_state_initialized'
                     ELSE /\ active_state' = active_state
                          /\ active_state_initialized' = (tr[f].hook # "init")
        /\ (Failed(last') /\ error = None) =>
              /\ Len(last'.trace) = FailedAt(last'.trace)
              /\ active_state' = active_state
              /\ active_state_initialized' = (FailedHook(last') # "init")
        /\ (last'.op = "run" /\ ~Failed(last')) =>
              \A k \in 1..Len(last'.trace) : last'.trace[k].hook \notin RecoveryHooks ]_vars

\* The exec hook of state 1 failed; the first recovery hook returned
\* Index(0), which resolves, and the second returned nothing: state 1 is
\* still active and initialized.
C16_Witness ==
    /\ Failed(last)
    /\ FailedHook(last) = "exec"
    /\ ErrorExecAt(last.trace) = Len(last.trace)
    /\ last.trace[Len(last.trace) - 1].ret = Some(DestIndex(0))
    /\ last.trace[Len(last.trace)].ret = None
    /\ Len(registered) >= 2
    /\ active_state = Some(1)
    /\ active_state_initialized

\* C17: a run() call calls at most one init hook, one exec hook and one
\* completion hook, and dispatches to the recovery pair at most once; it
\* never both takes a transition and redirects, and the active slot after
\* it is the slot before it, or the column of the transition taken, or the
\* redirect target, the last also after a failed completion hook.
C17_OneStep ==
    [][ last'.op = "run" =>
          LET tr == last'.trace IN
          /\ Cardinality(CallsOf(tr, "init")) <= 1
          /\ Cardinality(CallsOf(tr, "exec")) <= 1
          /\ Cardinality(CallsOf(tr, "done")) <= 1
          /\ Cardinality(CallsOf(tr, "error_exec")) <= 1
          /\ ~(Taken(last') /\ Redirected(last'))
          /\ IF Redirected(last') THEN active_state' = Some(RedirectTarget(last'))
             ELSE IF Taken(last') THEN active_state' = Some(TakenColumn(last'))
             ELSE active_state' = active_state ]_vars

\* State 0 ran its init and exec, the guard of column 1 passed, its
\* completion hook failed and the recovery redirect went to state 2.
C17_Witness ==
    /\ DoneFailed(last)
    /\ Redirected(last)
    /\ Cardinality(CallsOf(last.trace, "init")) = 1
    /\ last.trace[1].src = 0
    /\ last.trace[FailedAt(last.trace)].dst = 1
    /\ active_state = Some(2)

\* C18: run() with no active slot calls no hook and changes nothing: the
\* data, the slot array and count, the transition matrix, the active slot
\* (still absent), the flag and the recovery pair are as before, however
\* many states and transitions are registered.
C18_IdleRun ==
    [][ (last'.op = "run" /\ active_state = None) =>
            /\ last'.trace = <<>>
            /\ last'.res = Ok(Unit)
            /\ active_state' = None
            /\ UNCHANGED <<max_states, data, states, num_states, transitions,
                           active_state_initialized, error, panicked>> ]_vars

\* run() was called on a machine with two states, a transition and a
\* recovery pair, and no active slot.
C18_Witness ==
    /\ last.op = "run"
    /\ last.trace = <<>>
    /\ active_state = None
    /\ num_states = 2
    /\ Populated # {}
    /\ error # None

\* The tick's exec or completion hook failed and the redirect resolved to
\* the state that was active.
SameSlotRedirect(call) ==
    /\ Redirected(call)
    /\ Failed(call)
    /\ FailedHook(call) \in {"exec", "done"}
    /\ RedirectTarget(call) = call.trace[1].src

\* The tick's exec or completion hook failed and no redirect resolved.
PlainRetry(call) ==
    /\ Failed(call)
    /\ FailedHook(call) \in {"exec", "done"}
    /\ ~Redirected(call)

\* C19: after an exec or completion-hook failure, a redirect that resolves
\* (by index or by name) to the slot that is already active leaves that
\* slot active and resets the flag to false, so the next run() calls that
\* state's init first and its exec only after it; where no redirect
\* resolved the next run() starts with exec and calls no init.
C19_SameSlotRedirect ==
    [][ /\ SameSlotRedirect(last') =>
              /\ active_state' = active_state
              /\ ~active_state_initialized'
        /\ (SameSlotRedirect(last) /\ last'.op = "run") =>
              /\ Len(last'.trace) >= 1
              /\ last'.trace[1].hook = "init"
              /\ last'.trace[1].src = RedirectTarget(last)
              /\ \A k \in CallsOf(last'.trace, "exec") : k = 2
        /\ (PlainRetry(last) /\ last'.op = "run") =>
              /\ Len(last'.trace) >= 1
              /\ last'.trace[1].hook = "exec"
              /\ last'.trace[1].src = last.trace[1].src
              /\ CallsOf(last'.trace, "init") = {} ]_vars

\* The completion hook of a transition out of state 0 failed and the
\* second recovery hook named "a", which resolves to state 0 itself: state
\* 0 is active and no longer initialized.
C19_Witness ==
    /\ SameSlotRedirect(last)
    /\ FailedHook(last) = "done"
    /\ last.trace[ErrorExecAt(last.trace)].ret = Some(DestName("a"))
    /\ active_state = Some(0)
    /\ ~active_state_initialized

\* C20: no lookup returns StateIsEmpty: state and mut_state return the
\* registered state for every index below the count and
\* StateIndexOutOfBounds for every other index, and set_active_state
\* returns Ok or StateIndexOutOfBounds.
C20_NoEmptyState ==
    /\ \A i \in AllIndices :
          /\ i < num_states =>
                /\ state(i) = Ok(registered[i + 1])
                /\ mut_state(i) = Ok(registered[i + 1])
          /\ i >= num_states =>
                /\ state(i) = Err("StateIndexOutOfBounds")
                /\ mut_state(i) = Err("StateIndexOutOfBounds")
    /\ last.op = "set_active_state" =>
          last.res \in {Ok(Unit), Err("StateIndexOutOfBounds")}

\* Two of three slots are filled and set_active_state was refused: slot 2
\* is empty and within the capacity, and its lookup is out of bounds.
C20_Witness ==
    /\ num_states = 2
    /\ max_states = CycleStates
    /\ states[2] = None
    /\ state(2) = Err("StateIndexOutOfBounds")
    /\ state(1).ok
    /\ last.op = "set_active_state"
    /\ ~last.res.ok

====
